---- MODULE Spec2Model ----
(***************************************************************************)
(* spa-server: a directory-serving HTTP file server with an optional       *)
(* in-memory content cache and a default-document fallback.                *)
(*                                                                         *)
(* Strings (paths, extensions) are sequences of one-character strings, so  *)
(* that strings.HasPrefix, strings.TrimPrefix, filepath.Ext and            *)
(* filepath.Join work on characters as they do in Go.  File contents are   *)
(* sequences of byte values 0..255.                                        *)
(***************************************************************************)
EXTENDS Integers, Sequences, FiniteSets, TLC

(***************************************************************************)
(* Go library functions used by the program                                *)
(***************************************************************************)

\* strings.HasPrefix(s, prefix): a comparison of characters, not of path elements
HasPrefix(s, prefix) ==
    /\ Len(s) >= Len(prefix)
    /\ SubSeq(s, 1, Len(prefix)) = prefix

\* strings.TrimPrefix(s, prefix)
TrimPrefix(s, prefix) ==
    IF HasPrefix(s, prefix) THEN SubSeq(s, Len(prefix) + 1, Len(s)) ELSE s

\* the elements of a path: the pieces between its separators, empty ones included
RECURSIVE SplitPath(_)
SplitPath(s) ==
    IF s = <<>> THEN << <<>> >>
    ELSE LET rest == SplitPath(Tail(s)) IN
         IF Head(s) = "/" THEN << <<>> >> \o rest
         ELSE << <<Head(s)>> \o Head(rest) >> \o Tail(rest)

\* filepath.Clean on the elements of a rooted path: empty and "." elements are
\* dropped, ".." removes the element before it, and ".." at the root is dropped
RECURSIVE CleanElems(_, _)
CleanElems(elems, out) ==
    IF elems = <<>> THEN out
    ELSE LET e == Head(elems) IN
         IF e = <<>> \/ e = <<".">> THEN CleanElems(Tail(elems), out)
         ELSE IF e = <<".", ".">>
              THEN CleanElems(Tail(elems),
                              IF out = <<>> THEN out ELSE SubSeq(out, 1, Len(out) - 1))
              ELSE CleanElems(Tail(elems), Append(out, e))

\* a rooted path from its elements: "/" alone, or "/e1/e2/.../en"
RECURSIVE RenderPath(_)
RenderPath(elems) ==
    IF elems = <<>> THEN <<>>
    ELSE <<"/">> \o Head(elems) \o RenderPath(Tail(elems))

\* filepath.Clean(s) for a rooted s (every path the program cleans starts with the
\* served root, which filepath.Abs made absolute)
Clean(s) ==
    LET elems == CleanElems(SplitPath(s), <<>>) IN
    IF elems = <<>> THEN <<"/">> ELSE RenderPath(elems)

\* filepath.Join(dir, name) for an absolute dir: an empty name is ignored, the
\* rest is joined by a separator and cleaned
Join(dir, name) ==
    IF name = <<>> THEN Clean(dir) ELSE Clean(dir \o <<"/">> \o name)

\* the index of the last dot in the final element of s, 0 if it has none
RECURSIVE LastDot(_, _)
LastDot(s, i) ==
    IF i = 0 THEN 0
    ELSE IF s[i] = "/" THEN 0
    ELSE IF s[i] = "." THEN i
    ELSE LastDot(s, i - 1)

\* filepath.Ext(path): the suffix of the final element from its last dot on
Ext(path) ==
    LET i == LastDot(path, Len(path)) IN
    IF i = 0 THEN <<>> ELSE SubSeq(path, i, Len(path))

\* the first n elements of a sequence: raw[:n]
Take(s, n) == SubSeq(s, 1, IF Len(s) < n THEN Len(s) ELSE n)

\* len(raw) capped at n, as the program caps the slice it sniffs
SniffLen == 512

\* the bytes net/http's sniffer treats as binary data
IsBinaryByte(b) ==
    /\ b <= 31
    /\ \/ b <= 8
       \/ b = 11
       \/ (b >= 14 /\ b <= 26)
       \/ b >= 28

SigPDF == <<37, 80, 68, 70, 45>>                  \* "%PDF-"
SigGIF == <<71, 73, 70, 56, 57, 97>>              \* "GIF89a"
SigPNG == <<137, 80, 78, 71, 13, 10, 26, 10>>     \* "\x89PNG\r\n\x1a\n"

OctetStream == "application/octet-stream"
TextPlain == "text/plain; charset=utf-8"

\* http.DetectContentType(data): looks at no more than the first 512 bytes; exact
\* signatures first, then the text signature (no binary byte), else the generic
\* type.  Of the library's signatures the ones the files of this model meet.
DetectContentType(data) ==
    LET d == Take(data, SniffLen) IN
    IF HasPrefix(d, SigPDF) THEN "application/pdf"
    ELSE IF HasPrefix(d, SigGIF) THEN "image/gif"
    ELSE IF HasPrefix(d, SigPNG) THEN "image/png"
    ELSE IF \A i \in 1..Len(d) : ~IsBinaryByte(d[i]) THEN TextPlain
    ELSE OctetStream

(***************************************************************************)
(* sync.Map: Load and Store                                                *)
(***************************************************************************)
EmptyMap == [k \in {} |-> 0]

MapHas(m, k) == k \in DOMAIN m

MapStore(m, k, v) == [x \in (DOMAIN m) \cup {k} |-> IF x = k THEN v ELSE m[x]]

(***************************************************************************)
(* The disk.  Names are short; what matters is their shape: a served root  *)
(* "/a" with a sibling directory "/ab" whose name begins with the root's.  *)
(***************************************************************************)
DirA == <<"/", "a">>
DirAB == <<"/", "a", "b">>
DirD == DirA \o <<"/", "d">>

NameIndex == <<"i", ".", "h", "t", "m", "l">>
NameX == <<"x", ".", "b", "i", "n">>
NameY == <<"y", ".", "b", "i", "n">>
NameN == <<"n">>
NameS == <<"s", ".", "b", "i", "n">>
NameE == <<"e">>

FileIndexA == DirA \o <<"/">> \o NameIndex
FileX == DirA \o <<"/">> \o NameX
FileY == DirD \o <<"/">> \o NameY
FileN == DirA \o <<"/">> \o NameN
FileS == DirAB \o <<"/">> \o NameS
FileE == DirA \o <<"/">> \o NameE

DirPaths == {DirA, DirAB, DirD}
FilePaths == {FileIndexA, FileX, FileY, FileN, FileS, FileE}
FsPaths == DirPaths \cup FilePaths

\* 512 text bytes followed by one binary byte: text within the sniffed prefix
LongText == [i \in 1..(SniffLen + 1) |-> IF i <= SniffLen THEN 97 ELSE 0]

\* the bytes of each file
FileData(p) ==
    IF p = FileIndexA THEN <<104, 105>>
    ELSE IF p = FileX THEN SigPNG \o <<0>>
    ELSE IF p = FileY THEN SigPDF \o <<49>>
    ELSE IF p = FileN THEN LongText
    ELSE IF p = FileE THEN <<>>
    ELSE <<0, 1>>

\* the disk when the server starts: everything there, or y.bin not yet written
InitialDisks ==
    {[p \in FsPaths |-> "present"],
     [p \in FsPaths |-> IF p = FileY THEN "absent" ELSE "present"]}

\* the files that come and go while the server runs
Changeable == {FileIndexA, FileY}

\* os.Open(p): a missing path and an unreadable one fail, a directory opens
OpenError(f, p) ==
    IF p \notin FsPaths \/ f[p] = "absent" THEN "no such file or directory"
    ELSE IF f[p] = "locked" THEN "permission denied"
    ELSE ""

\* a read whose error is ignored
ReadErrorIgnored(f, p) == ""

\* ioutil.ReadAll(file): reading a directory fails
ReadError(f, p) == IF p \in DirPaths THEN "is a directory" ELSE ""

(***************************************************************************)
(* Bounds and inputs                                                       *)
(***************************************************************************)
\* how many times the files on disk change under the running server
MaxFsChanges == 1

\* DIR, made absolute by filepath.Abs
Roots == {DirA}

\* --default-doc: the default name, a name that leads into the sibling directory,
\* one that leads elsewhere, and the name of a directory
DocNames == {NameIndex,
             <<".", ".", "/", "a", "b", "/">> \o NameS,
             <<".", ".", "/", "e">>,
             <<"d">>}

Methods == {"GET", "HEAD", "OPTIONS"}

\* r.URL.Path of the requests
ReqPaths == {
    <<"/">>,
    <<"/">> \o NameIndex,
    <<"/">> \o NameX,
    <<"/">> \o NameN,
    <<"/", "d">>,
    <<"/", "d", "/">> \o NameY,
    <<"/", "z", "z">>,
    <<"/", "d", "/", ".", ".", "/">> \o NameX,
    <<"/", ".", ".", "/", "e">>,
    <<"/", ".", ".", "/", "a", "b", "/">> \o NameS }

(***************************************************************************)
(* State                                                                   *)
(***************************************************************************)
VARIABLES
    program,     \* which main runs: "main" (main.go) or "load" (the one with --load)
    phase,       \* "boot", "serving" (ListenAndServe runs) or "fatal" (panic)
    args,        \* the parsed Arguments
    defaultDoc,  \* the Default Document Path computed at startup
    cache,       \* path -> CacheEntry
    types,       \* extension -> content type
    fs,          \* the disk: path -> "present", "absent" or "locked"
    changes,     \* how many times the disk has changed
    last,        \* what the program did last, startup or a request, and the disk
                 \* it saw
    conns        \* the requests in flight, one goroutine each: where each stands
                 \* in the handler and its local variables

vars == <<program, phase, args, defaultDoc, cache, types, fs, changes, last, conns>>

NoHeader == "(absent)"
NoLength == -1

NoRequest == [method |-> "none"]

\* how many requests the server handles at the same time
MaxGoroutines == 2

\* net/http runs the handler in one goroutine per connection
Goroutines == 1..MaxGoroutines

NoResponse == [status |-> 0, contentType |-> NoHeader, contentLength |-> NoLength,
               body |-> <<>>, error |-> <<>>]

\* a goroutine with no request: the handler's local variables at their zero values
Idle == [pc |-> "idle", method |-> "", origPath |-> <<>>, fullpath |-> <<>>,
         raw |-> <<>>, ext |-> <<>>, sniffed |-> "", contentType |-> "",
         resp |-> NoResponse]

\* types.Store of the five seeded extensions
SeedTypes ==
    (<<".", "j", "s">> :> "application/javascript")
    @@ (<<".", "c", "s", "s">> :> "text/css")
    @@ (<<".", "h", "t", "m", "l">> :> "text/html")
    @@ (<<".", "s", "v", "g">> :> "image/svg+xml")
    @@ (<<".", "i", "c", "o">> :> "image/x-icon")

(***************************************************************************)
(* The request handler of main.go                                          *)
(***************************************************************************)

\* the content type of a file just read and the extension map after it.  On a
\* miss the sniffed type goes to a variable of the inner block, so the type the
\* handler goes on with is still the empty string.
ContentTypeOf(fullpath, raw, t) ==
    LET ext == Ext(fullpath) IN
    IF MapHas(t, ext)
    THEN [contentType |-> t[ext], types |-> t, sniffed |-> FALSE]
    ELSE LET length == IF Len(raw) > SniffLen THEN SniffLen ELSE Len(raw)
             inner == DetectContentType(Take(raw, length))
         IN [contentType |-> "",
             types |-> IF inner # OctetStream /\ Len(ext) # 0
                       THEN MapStore(t, ext, inner) ELSE t,
             sniffed |-> TRUE]

\* mime.TypeByExtension(ext): the library's built-in table, for the extensions the
\* files of this model have; the empty string when the extension is not in it
TypeByExtension(ext) ==
    IF ext = <<".", "h", "t", "m", "l">> THEN "text/html; charset=utf-8" ELSE ""

\* the same step in the program with --load: nothing is looked up or sniffed for
\* an empty extension; a missing extension is asked of the mime table first and
\* sniffed only if that knows nothing; the type found is the one used
ContentTypeOfLoad(fullpath, raw, t) ==
    LET ext == Ext(fullpath) IN
    IF Len(ext) > 0
    THEN IF MapHas(t, ext)
         THEN [contentType |-> t[ext], types |-> t, sniffed |-> FALSE]
         ELSE LET byExt == TypeByExtension(ext)
                  length == IF Len(raw) > SniffLen THEN SniffLen ELSE Len(raw)
                  found == IF byExt = ""
                           THEN DetectContentType(Take(raw, length)) ELSE byExt
              IN [contentType |-> found,
                  types |-> IF found # OctetStream THEN MapStore(t, ext, found) ELSE t,
                  sniffed |-> byExt = ""]
    ELSE [contentType |-> "", types |-> t, sniffed |-> FALSE]

\* a handler that writes the body whatever the method
BodyForAnyMethod(method, content) == content

\* what w.Write is given: nothing when the method is HEAD
BodyFor(method, content) == IF method # "HEAD" THEN content ELSE <<>>

\* a cache hit answered without a Content-Length header
CachedResponseNoLength(method, entry) ==
    [status |-> 200,
     contentType |-> entry.ContentType,
     contentLength |-> NoLength,
     body |-> BodyFor(method, entry.Content),
     error |-> <<>>]

\* the response to a cache hit
CachedResponse(method, entry) ==
    [status |-> 200,
     contentType |-> entry.ContentType,
     contentLength |-> Len(entry.Content),
     body |-> BodyFor(method, entry.Content),
     error |-> <<>>]

\* the response after a file was read
FileResponse(method, contentType, raw) ==
    [status |-> 200,
     contentType |-> contentType,
     contentLength |-> Len(raw),
     body |-> BodyFor(method, raw),
     error |-> <<>>]

\* http.Error(w, message, code): a plain-text response whose body is the message
ErrorResponse(code, message) ==
    [status |-> code,
     contentType |-> TextPlain,
     contentLength |-> NoLength,
     body |-> <<>>,
     error |-> message]

\* err.Error() of a failed os.Open
OpenErrorText(fullpath, err) == <<"open ">> \o fullpath \o <<": ", err>>

\* a handler that never retries with the default document
NeverFallsBack(fullpath) == FALSE

\* after a failed open: whether the handler jumps back with the default document
FallsBack(fullpath) == fullpath # defaultDoc

\* a handler without the OPTIONS branch
NeverPreflight(method) == FALSE

\* whether the handler returns at once
IsPreflight(method) == method = "OPTIONS"

\* a handler that retries with the served root
FallbackPathRoot == args.Directory

\* fullpath = defaultDoc, before the jump back
FallbackPath == defaultDoc

\* a cache keyed by the path as requested
CacheKeyRequested(origPath, fullpath) == args.Directory \o origPath

\* the key of cache.Store: the path that was opened and read
CacheKey(origPath, fullpath) == fullpath

\* a handler that stores whatever the flag says
StoreAlways == TRUE

\* whether the handler stores what it read: if args.MemCache
StoreEnabled == args.MemCache

\* a handler that says nothing about a failed open
OpenFailureSilent(logs) == logs

\* color.Red("unable to open file: %s", fullpath)
OpenFailureLogged(logs) == Append(logs, "unable to open file")

\* from the label "again" to the end of the handler; acc collects what the
\* request did so far: the cache lookups, the opens, the reads, the log records
RECURSIVE Again(_, _, _, _, _, _, _)
Again(method, origPath, fullpath, c, t, f, acc) ==
    LET relPath == TrimPrefix(fullpath, args.Directory)
        lookups == IF args.MemCache THEN Append(acc.lookups, fullpath) ELSE acc.lookups
    IN
    IF args.MemCache /\ MapHas(c, fullpath)
    THEN [resp |-> CachedResponse(method, c[fullpath]),
          cache |-> c, types |-> t, fullpath |-> fullpath,
          lookups |-> lookups, opens |-> acc.opens, reads |-> acc.reads,
          logs |-> Append(acc.logs, "cached"),
          hit |-> TRUE, sniffed |-> FALSE, stored |-> FALSE]
    ELSE
    LET opens == Append(acc.opens, fullpath)
        err == OpenError(f, fullpath)
    IN
    IF err # ""
    THEN IF FallsBack(fullpath)
         THEN Again(method, origPath, FallbackPath, c, t, f,
                    [lookups |-> lookups, opens |-> opens, reads |-> acc.reads,
                     logs |-> OpenFailureLogged(acc.logs)])
         ELSE [resp |-> ErrorResponse(404, OpenErrorText(fullpath, err)),
               cache |-> c, types |-> t, fullpath |-> fullpath,
               lookups |-> lookups, opens |-> opens, reads |-> acc.reads,
               logs |-> Append(OpenFailureLogged(acc.logs), "404"),
               hit |-> FALSE, sniffed |-> FALSE, stored |-> FALSE]
    ELSE
    IF ReadError(f, fullpath) # ""
    THEN [resp |-> ErrorResponse(500, <<"unable to read file">>),
          cache |-> c, types |-> t, fullpath |-> fullpath,
          lookups |-> lookups, opens |-> opens, reads |-> Append(acc.reads, fullpath),
          logs |-> acc.logs \o <<"unable to read file", "404">>,
          hit |-> FALSE, sniffed |-> FALSE, stored |-> FALSE]
    ELSE
    LET raw == FileData(fullpath)
        ct == IF program = "main" THEN ContentTypeOf(fullpath, raw, t)
              ELSE ContentTypeOfLoad(fullpath, raw, t)
    IN [resp |-> FileResponse(method, ct.contentType, raw),
        cache |-> IF StoreEnabled
                  THEN MapStore(c, CacheKey(origPath, fullpath),
                                [Content |-> raw, ContentType |-> ct.contentType])
                  ELSE c,
        types |-> ct.types, fullpath |-> fullpath,
        lookups |-> lookups, opens |-> opens, reads |-> Append(acc.reads, fullpath),
        logs |-> Append(acc.logs, IF origPath = relPath THEN "served" ELSE "corrected"),
        hit |-> FALSE, sniffed |-> ct.sniffed, stored |-> StoreEnabled]

\* a resolution that joins "/" as it is
ResolvePathNoRoot(urlPath) ==
    LET fullpath == Join(args.Directory, urlPath)
    IN IF ~HasPrefix(fullpath, args.Directory) THEN defaultDoc ELSE fullpath

\* the path the handler starts from: "/" stands for the default document, the
\* joined path must have the root as a prefix, else the default document is used
ResolvePath(urlPath) ==
    LET path == IF urlPath = <<"/">> THEN args.DefaultDoc ELSE urlPath
        fullpath == Join(args.Directory, path)
    IN IF ~HasPrefix(fullpath, args.Directory) THEN defaultDoc ELSE fullpath

\* w.WriteHeader(200) and nothing else
PreflightResponse ==
    [status |-> 200, contentType |-> NoHeader, contentLength |-> NoLength,
     body |-> <<>>, error |-> <<>>]

\* the handler registered for "/"
Handler(method, urlPath, c, t, f) ==
    IF IsPreflight(method)
    THEN [resp |-> PreflightResponse,
          cache |-> c, types |-> t, fullpath |-> <<>>,
          lookups |-> <<>>, opens |-> <<>>, reads |-> <<>>, logs |-> <<>>,
          hit |-> FALSE, sniffed |-> FALSE, stored |-> FALSE]
    ELSE Again(method, urlPath, ResolvePath(urlPath), c, t, f,
               [lookups |-> <<>>, opens |-> <<>>, reads |-> <<>>, logs |-> <<>>])

(***************************************************************************)
(* Actions                                                                 *)
(***************************************************************************)
Init ==
    /\ program = "main"
    /\ phase = "boot"
    /\ args \in [Directory : Roots, DefaultDoc : DocNames,
                 MemCache : BOOLEAN, LoadCache : {FALSE}]
    /\ defaultDoc = <<>>
    /\ cache = EmptyMap
    /\ types = EmptyMap
    /\ fs \in InitialDisks
    /\ changes = 0
    /\ last = NoRequest
    /\ conns = [g \in Goroutines |-> Idle]

\* main up to ListenAndServe: the maps, the seeded types, the default document
Startup ==
    /\ phase = "boot"
    /\ types' = SeedTypes
    /\ defaultDoc' = Join(args.Directory, args.DefaultDoc)
    /\ phase' = IF ~HasPrefix(defaultDoc', args.Directory) THEN "fatal" ELSE "serving"
    /\ last' = [method |-> "start", fs |-> fs]
    /\ UNCHANGED <<program, args, cache, fs, changes, conns>>

\* what is kept of a handled request
Handled(method, urlPath, out) ==
    [method |-> method, path |-> urlPath, resp |-> out.resp,
     fullpath |-> out.fullpath, lookups |-> out.lookups, opens |-> out.opens,
     reads |-> out.reads, logs |-> out.logs, hit |-> out.hit,
     sniffed |-> out.sniffed, stored |-> out.stored, fs |-> fs]

\* one request, handled from start to end
Request(method, urlPath) ==
    /\ phase = "serving"
    /\ \E out \in {Handler(method, urlPath, cache, types, fs)} :
        /\ cache' = out.cache
        /\ types' = out.types
        /\ last' = Handled(method, urlPath, out)
    /\ UNCHANGED <<program, phase, args, defaultDoc, fs, changes, conns>>

\* somebody creates, removes or locks a file, or locks or unlocks a directory
FsChange(p, st) ==
    /\ changes < MaxFsChanges
    /\ fs[p] # st
    /\ p \in DirPaths => st # "absent"
    /\ fs' = [fs EXCEPT ![p] = st]
    /\ changes' = changes + 1
    /\ UNCHANGED <<program, phase, args, defaultDoc, cache, types, last, conns>>

(***************************************************************************)
(* The program with --load: the pre-cache walk and its startup             *)
(***************************************************************************)

\* the byte values of the characters of the file names, which os.ReadDir sorts by
CharCode(c) ==
    CASE c = "." -> 46 [] c = "/" -> 47
      [] c = "a" -> 97 [] c = "b" -> 98 [] c = "d" -> 100 [] c = "e" -> 101
      [] c = "h" -> 104 [] c = "i" -> 105 [] c = "l" -> 108 [] c = "m" -> 109
      [] c = "n" -> 110 [] c = "s" -> 115 [] c = "t" -> 116 [] c = "x" -> 120
      [] c = "y" -> 121 [] c = "z" -> 122

\* a < b as strings
RECURSIVE NameLess(_, _)
NameLess(a, b) ==
    IF b = <<>> THEN FALSE
    ELSE IF a = <<>> THEN TRUE
    ELSE IF Head(a) = Head(b) THEN NameLess(Tail(a), Tail(b))
    ELSE CharCode(Head(a)) < CharCode(Head(b))

\* the entries of the directory dir on disk f
Entries(f, dir) ==
    {p \in FsPaths :
        /\ f[p] # "absent"
        /\ Len(p) > Len(dir) + 1
        /\ HasPrefix(p, dir \o <<"/">>)
        /\ \A i \in (Len(dir) + 2)..Len(p) : p[i] # "/"}

\* os.ReadDir(dir): the entries sorted by file name
RECURSIVE ReadDir(_)
ReadDir(entries) ==
    IF entries = {} THEN <<>>
    ELSE LET first == CHOOSE x \in entries :
                          \A y \in entries \ {x} : NameLess(x, y)
         IN <<first>> \o ReadDir(entries \ {first})

\* the content-type step of precache, the same as the handler's of this program
PrecacheContentType(fullpath, raw, t) ==
    LET ext == Ext(fullpath) IN
    IF Len(ext) > 0
    THEN IF MapHas(t, ext)
         THEN [contentType |-> t[ext], types |-> t]
         ELSE LET byExt == TypeByExtension(ext)
                  length == IF Len(raw) > SniffLen THEN SniffLen ELSE Len(raw)
                  found == IF byExt = ""
                           THEN DetectContentType(Take(raw, length)) ELSE byExt
              IN [contentType |-> found,
                  types |-> IF found # OctetStream THEN MapStore(t, ext, found) ELSE t]
    ELSE [contentType |-> "", types |-> t]

\* a walk that takes every file of the listing as read
ReadFileNeverFails(f, file) == FALSE

\* whether ioutil.ReadFile fails on a file of the listing
ReadFileFails(f, file) == f[file] = "locked"

\* whether os.ReadDir fails on a directory
ReadDirFails(f, dir) == f[dir] # "present"

\* a walk that forgets the bytes of the subdirectories
SizeAfterDirDropped(size, s) == size

\* size += s, after the walk of a subdirectory returned s
SizeAfterDir(size, s) == size + s

\* precache(cache, types, dir): walks the tree below dir, stores an entry for every
\* file and returns the bytes stored; a directory that cannot be listed and a
\* file that cannot be read end the process (panic)
RECURSIVE Precache(_, _, _, _)
RECURSIVE PrecacheFiles(_, _, _)
PrecacheFiles(files, f, acc) ==
    IF files = <<>> \/ acc.panic THEN acc
    ELSE LET file == Head(files) IN
         IF file \in DirPaths
         THEN LET sub == Precache(acc.cache, acc.types, f, file) IN
              PrecacheFiles(Tail(files), f,
                            [panic |-> sub.panic, size |-> SizeAfterDir(acc.size, sub.size),
                             cache |-> sub.cache, types |-> sub.types])
         ELSE IF ReadFileFails(f, file)
         THEN [acc EXCEPT !.panic = TRUE]
         ELSE LET raw == FileData(file)
                  ct == PrecacheContentType(file, raw, acc.types)
              IN PrecacheFiles(Tail(files), f,
                               [panic |-> FALSE, size |-> acc.size + Len(raw),
                                cache |-> MapStore(acc.cache, file,
                                                   [Content |-> raw,
                                                    ContentType |-> ct.contentType]),
                                types |-> ct.types])

Precache(c, t, f, dir) ==
    IF ReadDirFails(f, dir)
    THEN [panic |-> TRUE, size |-> 0, cache |-> c, types |-> t]
    ELSE PrecacheFiles(ReadDir(Entries(f, dir)), f,
                       [panic |-> FALSE, size |-> 0, cache |-> c, types |-> t])

\* what can change on disk around the program with --load
ChangeableLoad == {FileIndexA, FileY, DirD}

\* --default-doc of the program with --load: the default name and one that leaves
\* the root
DocNamesLoad == {NameIndex, <<".", ".", "/", "e">>}

\* r.URL.Path of the requests to the program with --load
ReqPathsLoad == {
    <<"/">>,
    <<"/">> \o NameX,
    <<"/">> \o NameN,
    <<"/", "d">>,
    <<"/", "d", "/">> \o NameY,
    <<"/", "z", "z">> }

InitLoad ==
    /\ program = "load"
    /\ phase = "boot"
    /\ args \in [Directory : Roots, DefaultDoc : DocNamesLoad,
                 MemCache : BOOLEAN, LoadCache : BOOLEAN]
    /\ defaultDoc = <<>>
    /\ cache = EmptyMap
    /\ types = EmptyMap
    /\ fs \in InitialDisks
    /\ changes = 0
    /\ last = NoRequest
    /\ conns = [g \in Goroutines |-> Idle]

\* main of the program with --load up to ListenAndServe: empty maps, the walk if
\* asked for, then the default document
StartupLoad ==
    /\ phase = "boot"
    /\ \E walk \in {IF args.LoadCache
                     THEN Precache(EmptyMap, EmptyMap, fs, args.Directory)
                     ELSE [panic |-> FALSE, size |-> 0,
                           cache |-> EmptyMap, types |-> EmptyMap]} :
        /\ args' = [args EXCEPT !.MemCache = args.MemCache \/ args.LoadCache]
        /\ cache' = walk.cache
        /\ types' = walk.types
        /\ defaultDoc' = IF walk.panic THEN defaultDoc
                         ELSE Join(args.Directory, args.DefaultDoc)
        /\ phase' = IF walk.panic \/ ~HasPrefix(defaultDoc', args.Directory)
                    THEN "fatal" ELSE "serving"
        /\ last' = [method |-> "start", fs |-> fs, size |-> walk.size,
                    walked |-> args.LoadCache /\ ~walk.panic]
    /\ UNCHANGED <<program, fs, changes, conns>>

NextLoad ==
    \/ StartupLoad
    \/ \E m \in Methods, p \in ReqPathsLoad : Request(m, p)
    \/ \E p \in ChangeableLoad, st \in {"present", "absent", "locked"} : FsChange(p, st)

SpecLoad == InitLoad /\ [][NextLoad]_vars

(***************************************************************************)
(* The handler of main.go under concurrent requests.  Each goroutine runs  *)
(* the handler; a step ends at each access to what the goroutines share:   *)
(* the cache, the extension map (sync.Map: every Load and Store is atomic, *)
(* a Load followed by a Store is not) and the disk.                        *)
(***************************************************************************)

\* r.URL.Path of the concurrent requests: two files that share an extension
\* and a path with no file
ReqPathsConc == {
    <<"/">> \o NameX,
    <<"/", "d", "/">> \o NameY,
    <<"/", "z", "z">> }

\* the goroutine ends its request with a response
Done(g, resp) == [Idle EXCEPT !.pc = "done", !.method = conns[g].method,
                              !.origPath = conns[g].origPath, !.resp = resp]

\* a request arrives: the OPTIONS branch, else the resolution of the path
Accept(g, method, urlPath) ==
    /\ phase = "serving"
    /\ conns[g].pc \in {"idle", "done"}
    /\ conns' = [conns EXCEPT ![g] =
                    IF IsPreflight(method)
                    THEN [Idle EXCEPT !.pc = "done", !.method = method,
                                      !.origPath = urlPath,
                                      !.resp = PreflightResponse]
                    ELSE [Idle EXCEPT !.pc = "again", !.method = method,
                                      !.origPath = urlPath,
                                      !.fullpath = ResolvePath(urlPath)]]
    /\ UNCHANGED <<program, phase, args, defaultDoc, cache, types, fs, changes, last>>

\* at "again": cache.Load, and the response on a hit
CacheLoad(g) ==
    /\ conns[g].pc = "again"
    /\ conns' = [conns EXCEPT ![g] =
                    IF args.MemCache /\ MapHas(cache, conns[g].fullpath)
                    THEN Done(g, CachedResponse(conns[g].method,
                                                cache[conns[g].fullpath]))
                    ELSE [conns[g] EXCEPT !.pc = "open"]]
    /\ UNCHANGED <<program, phase, args, defaultDoc, cache, types, fs, changes, last>>

\* os.Open: on failure the jump back with the default document, or the 404
Open(g) ==
    /\ conns[g].pc = "open"
    /\ LET fullpath == conns[g].fullpath
           err == OpenError(fs, fullpath)
       IN conns' = [conns EXCEPT ![g] =
                       IF err # ""
                       THEN IF FallsBack(fullpath)
                            THEN [conns[g] EXCEPT !.fullpath = FallbackPath,
                                                  !.pc = "again"]
                            ELSE Done(g, ErrorResponse(404,
                                             OpenErrorText(fullpath, err)))
                       ELSE [conns[g] EXCEPT !.pc = "read"]]
    /\ UNCHANGED <<program, phase, args, defaultDoc, cache, types, fs, changes, last>>

\* ioutil.ReadAll: the 500 on failure, else the bytes
ReadAll(g) ==
    /\ conns[g].pc = "read"
    /\ conns' = [conns EXCEPT ![g] =
                    IF ReadError(fs, conns[g].fullpath) # ""
                    THEN Done(g, ErrorResponse(500, <<"unable to read file">>))
                    ELSE [conns[g] EXCEPT !.raw = FileData(conns[g].fullpath),
                                          !.pc = "types"]]
    /\ UNCHANGED <<program, phase, args, defaultDoc, cache, types, fs, changes, last>>

\* types.Load: on a hit the type found; on a miss the sniffing, whose result
\* stays in the inner variable, and the decision to store it
TypesLoad(g) ==
    /\ conns[g].pc = "types"
    /\ LET ext == Ext(conns[g].fullpath)
           raw == conns[g].raw
           length == IF Len(raw) > SniffLen THEN SniffLen ELSE Len(raw)
           inner == DetectContentType(Take(raw, length))
       IN conns' = [conns EXCEPT ![g] =
                       IF MapHas(types, ext)
                       THEN [conns[g] EXCEPT !.ext = ext, !.contentType = types[ext],
                                             !.pc = "finish"]
                       ELSE IF inner # OctetStream /\ Len(ext) # 0
                       THEN [conns[g] EXCEPT !.ext = ext, !.sniffed = inner,
                                             !.pc = "typesStore"]
                       ELSE [conns[g] EXCEPT !.ext = ext, !.sniffed = inner,
                                             !.pc = "finish"]]
    /\ UNCHANGED <<program, phase, args, defaultDoc, cache, types, fs, changes, last>>

\* types.Store(ext, contentType) of the inner block
TypesStore(g) ==
    /\ conns[g].pc = "typesStore"
    /\ types' = MapStore(types, conns[g].ext, conns[g].sniffed)
    /\ conns' = [conns EXCEPT ![g].pc = "finish"]
    /\ UNCHANGED <<program, phase, args, defaultDoc, cache, fs, changes, last>>

\* cache.Store when caching is enabled, then the response
Finish(g) ==
    /\ conns[g].pc = "finish"
    /\ cache' = IF StoreEnabled
                THEN MapStore(cache, CacheKey(conns[g].origPath, conns[g].fullpath),
                              [Content |-> conns[g].raw,
                               ContentType |-> conns[g].contentType])
                ELSE cache
    /\ conns' = [conns EXCEPT ![g] =
                    Done(g, FileResponse(conns[g].method, conns[g].contentType,
                                         conns[g].raw))]
    /\ UNCHANGED <<program, phase, args, defaultDoc, types, fs, changes, last>>

\* the server of main.go with the default document name, the disk left alone
InitConc ==
    /\ program = "main"
    /\ phase = "boot"
    /\ args \in [Directory : Roots, DefaultDoc : {NameIndex},
                 MemCache : BOOLEAN, LoadCache : {FALSE}]
    /\ defaultDoc = <<>>
    /\ cache = EmptyMap
    /\ types = EmptyMap
    /\ fs \in InitialDisks
    /\ changes = 0
    /\ last = NoRequest
    /\ conns = [g \in Goroutines |-> Idle]

NextConc ==
    \/ Startup
    \/ \E g \in Goroutines, m \in Methods, p \in ReqPathsConc : Accept(g, m, p)
    \/ \E g \in Goroutines : CacheLoad(g)
    \/ \E g \in Goroutines : Open(g)
    \/ \E g \in Goroutines : ReadAll(g)
    \/ \E g \in Goroutines : TypesLoad(g)
    \/ \E g \in Goroutines : TypesStore(g)
    \/ \E g \in Goroutines : Finish(g)

SpecConc == InitConc /\ [][NextConc]_vars

Next ==
    \/ Startup
    \/ \E m \in Methods, p \in ReqPaths : Request(m, p)
    \/ \E p \in Changeable, st \in {"present", "absent"} : FsChange(p, st)

Spec == Init /\ [][Next]_vars

(***************************************************************************)
(* Properties                                                              *)
(***************************************************************************)

\* p is the directory dir or lies below it in the directory tree
InTree(p, dir) == p = dir \/ HasPrefix(p, dir \o <<"/">>)

\* a request other than OPTIONS has been handled
Resolved == last.method \in {"GET", "HEAD"}

\* the path the last request looked at first: in the cache, else on disk
FirstPath == IF last.lookups # <<>> THEN last.lookups[1] ELSE last.opens[1]

\* the file a request path resolves to can be opened and read on disk f
Readable(f, p) == OpenError(f, p) = "" /\ ReadError(f, p) = ""

\* C1. Path confinement: every path the handler looks up in the cache or opens
\* on disk is the served root or lies below it in the directory tree, and a
\* request whose joined path is not under the root starts from the default
\* document.
C1_PathConfinement ==
    Resolved =>
        /\ \A i \in DOMAIN last.lookups : InTree(last.lookups[i], args.Directory)
        /\ \A i \in DOMAIN last.opens : InTree(last.opens[i], args.Directory)
        /\ ~InTree(Join(args.Directory, last.path), args.Directory)
              => FirstPath = defaultDoc

\* C2. Idempotence: after a GET for an existing file, with the disk unchanged, a
\* second GET for the same path returns the same status, body and Content-Type.
C2_Idempotence ==
    (/\ last.method = "GET"
     /\ fs = last.fs
     /\ Readable(fs, ResolvePath(last.path))) =>
        LET second == Handler("GET", last.path, cache, types, fs) IN
        /\ second.resp.status = last.resp.status
        /\ second.resp.body = last.resp.body
        /\ second.resp.contentType = last.resp.contentType

\* the last request was a GET that succeeded by reading a file, caching enabled
FirstGetRead ==
    /\ args.MemCache
    /\ last.method = "GET"
    /\ last.resp.status = 200
    /\ ~last.hit

\* a response has the body, Content-Type and Content-Length of the last one
SameContent(resp) ==
    /\ resp.body = last.resp.body
    /\ resp.contentType = last.resp.contentType
    /\ resp.contentLength = last.resp.contentLength

\* C3 as stated. Cache transparency: after a first GET that read a file the cache
\* holds the final resolved path, and a second GET for the same path opens and
\* reads nothing and returns the same content.
C3_CacheTransparency_Stated ==
    (FirstGetRead /\ fs = last.fs) =>
        /\ MapHas(cache, last.fullpath)
        /\ LET second == Handler("GET", last.path, cache, types, fs) IN
            /\ second.opens = <<>>
            /\ second.reads = <<>>
            /\ SameContent(second.resp)

\* C3 as amended. After a first GET that read a file the cache holds the final
\* resolved path.  If the file was read at the path the request resolved to, a
\* second GET for the same path opens and reads nothing and returns the same
\* content, whatever has become of the disk.  If the first GET fell back to the
\* default document, the second one, on an unchanged disk, reads nothing, tries
\* the open of the requested path once more, and returns the same content.
C3_CacheTransparency ==
    FirstGetRead =>
        /\ MapHas(cache, last.fullpath)
        /\ LET second == Handler("GET", last.path, cache, types, fs) IN
            /\ Len(last.opens) = 1 =>
                  /\ second.opens = <<>>
                  /\ second.reads = <<>>
                  /\ SameContent(second.resp)
            /\ (Len(last.opens) = 2 /\ fs = last.fs) =>
                  /\ second.opens = <<last.opens[1]>>
                  /\ second.reads = <<>>
                  /\ second.hit
                  /\ SameContent(second.resp)

\* a GET was answered from the cache: an earlier request had read the file
C3_Witness ==
    /\ last.method = "GET"
    /\ last.hit
    /\ last.opens = <<>>
    /\ last.resp.contentLength > 0

\* what the handler does with a request apart from the body it writes and the
\* log records: the headers, the state it leaves, the paths it touched
SameButBody(h, g) ==
    /\ h.resp.status = g.resp.status
    /\ h.resp.contentType = g.resp.contentType
    /\ h.resp.contentLength = g.resp.contentLength
    /\ h.cache = g.cache
    /\ h.types = g.types
    /\ h.fullpath = g.fullpath
    /\ h.lookups = g.lookups
    /\ h.opens = g.opens
    /\ h.reads = g.reads
    /\ h.hit = g.hit
    /\ h.sniffed = g.sniffed
    /\ h.stored = g.stored

\* C4 as stated. HEAD/GET equivalence: in every state and for every path a HEAD
\* has the status, Content-Type and Content-Length of the GET, leaves the state
\* the GET leaves, and hands the response writer no body bytes.
C4_HeadEquivalence_Stated ==
    phase = "serving" =>
        \A p \in ReqPaths :
            \A h \in {Handler("HEAD", p, cache, types, fs)},
               g \in {Handler("GET", p, cache, types, fs)} :
               /\ SameButBody(h, g)
               /\ h.resp.body = <<>>
               /\ h.resp.error = <<>>

\* C4 as amended. In every state and for every path a HEAD has the status,
\* Content-Type and Content-Length of the GET and leaves the state the GET
\* leaves.  When the answer is 200 the handler writes no body for the HEAD; when
\* it is 404 or 500 the handler passes http.Error the same text as for the GET.
C4_HeadEquivalence ==
    phase = "serving" =>
        \A p \in ReqPaths :
            \A h \in {Handler("HEAD", p, cache, types, fs)},
               g \in {Handler("GET", p, cache, types, fs)} :
               /\ SameButBody(h, g)
               /\ h.resp.body = <<>>
               /\ h.resp.error = g.resp.error
               /\ g.resp.status = 200 => h.resp.error = <<>>

\* a HEAD was answered 200 for a file it read and stored: headers and no body
C4_Witness ==
    /\ last.method = "HEAD"
    /\ last.resp.status = 200
    /\ last.resp.contentLength > 0
    /\ last.resp.body = <<>>
    /\ last.stored

\* C5. OPTIONS short-circuit: whatever the path and the state, an OPTIONS
\* request is answered 200 with no body and no headers, looks nothing up, opens
\* and reads nothing, resolves no content type and leaves cache and extension
\* map as they were.
C5_OptionsShortCircuit ==
    /\ last.method = "OPTIONS" =>
          /\ last.resp.status = 200
          /\ last.resp.body = <<>>
          /\ last.resp.error = <<>>
          /\ last.lookups = <<>>
          /\ last.opens = <<>>
          /\ last.reads = <<>>
          /\ ~last.hit /\ ~last.sniffed /\ ~last.stored
    /\ phase = "serving" =>
          \A p \in ReqPaths : \A o \in {Handler("OPTIONS", p, cache, types, fs)} :
              /\ o.resp.status = 200
              /\ o.resp.body = <<>> /\ o.resp.error = <<>>
              /\ o.lookups = <<>> /\ o.opens = <<>> /\ o.reads = <<>>
              /\ o.cache = cache /\ o.types = types

\* an OPTIONS request for a path that leaves the root, with file types memoized
C5_Witness ==
    /\ last.method = "OPTIONS"
    /\ ~InTree(Join(args.Directory, last.path), args.Directory)
    /\ types # SeedTypes

\* the content the default document is served with: the cache entry if the
\* request found one, else the bytes on disk
DefaultDocBytes ==
    IF last.hit THEN cache[defaultDoc].Content ELSE FileData(defaultDoc)

\* the last request was a GET whose resolved path has no file that opens
MissingGet ==
    /\ last.method = "GET"
    /\ OpenError(last.fs, ResolvePath(last.path)) # ""

\* C6 as stated. A GET for a path whose file cannot be opened gets the default
\* document with status 200 whenever the default document is cached or can be
\* opened; it gets 404 with a non-empty body exactly when the open of the
\* default document fails and it is not served from cache; no request gets 404
\* while the default document is readable.
C6_MissingPath_Stated ==
    /\ MissingGet =>
          /\ ((args.MemCache /\ MapHas(cache, defaultDoc))
                \/ OpenError(last.fs, defaultDoc) = "")
              => (last.resp.status = 200 /\ last.resp.body = DefaultDocBytes)
          /\ (last.resp.status = 404 /\ last.resp.error # <<>>)
              <=> (OpenError(last.fs, defaultDoc) # "" /\ ~last.hit)
    /\ (Resolved /\ last.resp.status = 404) => ~Readable(last.fs, defaultDoc)

\* the last request was a GET whose first open failed
FailedOpenGet ==
    /\ last.method = "GET"
    /\ last.opens # <<>>
    /\ OpenError(last.fs, last.opens[1]) # ""

\* C6 as amended. A GET whose open of the resolved path fails ends at the
\* default document: 200 with its bytes when it is cached or can be opened and
\* read, 500 when it opens but cannot be read (a directory), and 404 with a
\* non-empty body exactly when its open fails and it is not served from cache.
\* No request gets 404 while the default document is readable.
C6_MissingPath ==
    /\ FailedOpenGet =>
          /\ last.fullpath = defaultDoc
          /\ (last.hit \/ Readable(last.fs, defaultDoc))
              => (last.resp.status = 200 /\ last.resp.body = DefaultDocBytes)
          /\ (~last.hit /\ OpenError(last.fs, defaultDoc) = ""
                /\ ReadError(last.fs, defaultDoc) # "")
              => last.resp.status = 500
          /\ (last.resp.status = 404 /\ last.resp.error # <<>>)
              <=> (OpenError(last.fs, defaultDoc) # "" /\ ~last.hit)
    /\ (Resolved /\ last.resp.status = 404) => ~Readable(last.fs, defaultDoc)

\* a GET for a missing file was answered with the default document read from disk
C6_Witness ==
    /\ FailedOpenGet
    /\ Len(last.opens) = 2
    /\ last.resp.status = 200
    /\ last.resp.body = FileData(defaultDoc)

\* C7. Root equivalence: in every state a request for "/" resolves to the path
\* that "/" followed by the default-document name resolves to, and the two get
\* the same response and leave the same state.
C7_RootEquivalence ==
    phase = "serving" =>
        /\ ResolvePath(<<"/">>) = ResolvePath(<<"/">> \o args.DefaultDoc)
        /\ \A m \in Methods :
              \A r \in {Handler(m, <<"/">>, cache, types, fs)},
                 d \in {Handler(m, <<"/">> \o args.DefaultDoc, cache, types, fs)} :
                 SameButBody(r, d) /\ r.resp = d.resp

\* a GET for "/" was answered with the default document
C7_Witness ==
    /\ last.method = "GET"
    /\ last.path = <<"/">>
    /\ last.resp.status = 200
    /\ last.fullpath = Join(args.Directory, args.DefaultDoc)
    /\ last.resp.body = FileData(last.fullpath)

\* C8. Sniff and memoize: when a file is read whose extension is not in the map
\* and whose first 512 bytes sniff to a type T other than the generic one, the
\* response to that request carries Content-Type T and the map then holds
\* extension -> T.
C8_SniffAndMemoize ==
    (/\ Resolved
     /\ last.resp.status = 200
     /\ last.sniffed
     /\ Ext(last.fullpath) # <<>>
     /\ DetectContentType(Take(FileData(last.fullpath), SniffLen)) # OctetStream) =>
        /\ last.resp.contentType
              = DetectContentType(Take(FileData(last.fullpath), SniffLen))
        /\ MapHas(types, Ext(last.fullpath))
        /\ types[Ext(last.fullpath)]
              = DetectContentType(Take(FileData(last.fullpath), SniffLen))

\* C9. Default document inside the root: the server serves only if the Default
\* Document Path lies within the served root directory; otherwise startup ends
\* in a fatal fault and no request is handled.
C9_DefaultDocInRoot ==
    /\ phase = "serving" => InTree(Join(args.Directory, args.DefaultDoc), args.Directory)
    /\ ~InTree(Join(args.Directory, args.DefaultDoc), args.Directory)
          => last.method \in {"none", "start"}

\* the files below the served root on disk f
TreeFiles(f) == {p \in FilePaths : InTree(p, args.Directory) /\ f[p] # "absent"}

\* something below the served root that cannot be listed or read on disk f
Unreadable(f) == \E p \in FsPaths : InTree(p, args.Directory) /\ f[p] = "locked"

\* C10. Strict pre-cache before serving: with pre-caching enabled the server
\* serves only after the walk has finished, and when it starts to serve the
\* cache holds, for every file in the tree and for nothing else, an entry under
\* its absolute path with the file's bytes; if a listing or a read fails during
\* the walk, startup aborts and no request is ever handled.
C10_StrictPrecache ==
    /\ (args.LoadCache /\ phase = "serving" /\ last.method = "start") =>
          /\ last.walked
          /\ ~Unreadable(last.fs)
          /\ DOMAIN cache = TreeFiles(last.fs)
          /\ \A p \in TreeFiles(last.fs) : cache[p].Content = FileData(p)
    /\ (args.LoadCache /\ last.method = "start" /\ Unreadable(last.fs)) =>
          phase = "fatal"
    /\ phase = "fatal" => last.method = "start"
    /\ (args.LoadCache /\ last.method \in Methods) =>
          /\ phase = "serving"
          /\ args.MemCache
          /\ \A p \in FilePaths \ ChangeableLoad :
                InTree(p, args.Directory) => MapHas(cache, p)

\* the server with --load has just started to serve, the whole tree in its cache
C10_Witness ==
    /\ args.LoadCache
    /\ phase = "serving"
    /\ last.method = "start"
    /\ last.size > 0
    /\ MapHas(cache, FileY)
    /\ cache[FileY].Content = FileData(FileY)

\* the sum of the byte lengths of the files of a set
RECURSIVE TreeBytes(_)
TreeBytes(files) ==
    IF files = {} THEN 0
    ELSE LET p == CHOOSE x \in files : TRUE
         IN Len(FileData(p)) + TreeBytes(files \ {p})

\* the sum of the content lengths of the entries of a cache under a set of keys
RECURSIVE CacheBytes(_, _)
CacheBytes(c, keys) ==
    IF keys = {} THEN 0
    ELSE LET k == CHOOSE x \in keys : TRUE
         IN Len(c[k].Content) + CacheBytes(c, keys \ {k})

\* C11. Pre-cache size: when the walk of the served root has come to its end,
\* the size it returned is the sum of the byte lengths of all files of the whole
\* tree, empty files and the files of subdirectories included, and is the sum
\* of the content lengths of the cache entries the walk stored.
C11_PrecacheSize ==
    (last.method = "start" /\ last.walked) =>
        /\ last.size = TreeBytes(TreeFiles(last.fs))
        /\ last.size = CacheBytes(cache, DOMAIN cache)

\* a walk over a tree with a file in a subdirectory and an empty file
C11_Witness ==
    /\ last.method = "start"
    /\ last.walked
    /\ last.fs[FileY] = "present"
    /\ MapHas(cache, FileE)
    /\ cache[FileE].Content = <<>>
    /\ last.size = TreeBytes(TreeFiles(last.fs))
    /\ last.size > Len(FileData(FileY))

\* a walk over a tree with an empty subdirectory
C11_WitnessEmptyDir ==
    /\ last.method = "start"
    /\ last.walked
    /\ last.fs[FileY] = "absent"
    /\ last.fs[DirD] = "present"
    /\ last.size > 0

\* C13. Extension map write-once under concurrency: once the extension map holds
\* a value for an extension, no step of any request changes that value or
\* removes it, whatever the interleaving of the requests.
C13_TypesWriteOnce ==
    [][\A e \in DOMAIN types : MapHas(types', e) /\ types'[e] = types[e]]_vars

\* C14. Deterministic cache entry under racing stores: with the disk unchanged,
\* every entry stored for a path has the content and the content type of the
\* entry the cache already holds for it, whatever the interleaving.
C14_CacheEntryDeterministic ==
    [][\A k \in DOMAIN cache : MapHas(cache', k) /\ cache'[k] = cache[k]]_vars

\* the records that close a request: "orig => rel (type)" on a cache hit,
\* "orig => rel" after a file was read, "orig => ??? (404)" on a failure
SummaryRecords == {"cached", "served", "corrected", "404"}

\* how many elements of a sequence are in a set
RECURSIVE CountIn(_, _)
CountIn(seq, set) ==
    IF seq = <<>> THEN 0
    ELSE (IF Head(seq) \in set THEN 1 ELSE 0) + CountIn(Tail(seq), set)

\* the opens of the last request that failed
FailedOpens == {i \in DOMAIN last.opens : OpenError(last.fs, last.opens[i]) # ""}

\* C12 as stated. One log record per request: every completed request other
\* than OPTIONS emits exactly one log record over its whole handling.
C12_OneLogRecord_Stated ==
    Resolved => Len(last.logs) = 1

\* C12 as amended. Every completed request other than OPTIONS emits exactly one
\* closing record, as the last record of its handling; before it the request
\* emits one "unable to open file" record for every open that failed and one
\* "unable to read file" record if the read failed.  A cache hit and a file
\* found at its first open emit one record, a fallback that succeeds two.
C12_OneLogRecord ==
    Resolved =>
        /\ CountIn(last.logs, SummaryRecords) = 1
        /\ last.logs[Len(last.logs)] \in SummaryRecords
        /\ CountIn(last.logs, {"unable to open file"}) = Cardinality(FailedOpens)
        /\ CountIn(last.logs, {"unable to read file"})
              = (IF last.resp.status = 500 THEN 1 ELSE 0)
        /\ Len(last.logs) = 1 + Cardinality(FailedOpens)
                              + (IF last.resp.status = 500 THEN 1 ELSE 0)
        /\ (last.hit /\ last.opens = <<>>) => Len(last.logs) = 1
        /\ (last.resp.status = 200 /\ Len(last.opens) = 1 /\ ~last.hit)
              => Len(last.logs) = 1
        /\ (last.resp.status = 200 /\ Len(last.opens) = 2) => Len(last.logs) = 2
        /\ last.resp.status = 404 => Len(last.logs) \in {2, 3}

\* a request for a missing file was answered with the default document: the
\* record of the failed open, then the closing record
C12_Witness ==
    /\ last.method = "GET"
    /\ last.resp.status = 200
    /\ last.logs = <<"unable to open file", "corrected">>

\* how often the last request passed the label "again": once, and once more
\* for every jump back
Passes == IF args.MemCache THEN Len(last.lookups) ELSE Len(last.opens)

\* C15. Bounded fallback and termination: every request ends with one response
\* after at most two opens; the jump back is taken at most once, exactly when
\* the first open failed for a path other than the Default Document Path, and
\* after it the path is the Default Document Path to the end.
C15_BoundedFallback ==
    /\ last.method \in Methods =>
          /\ last.resp.status \in {200, 404, 500}
          /\ Len(last.opens) <= 2
          /\ Len(last.lookups) <= 2
          /\ Len(last.reads) <= 1
    /\ last.method = "OPTIONS" => last.opens = <<>>
    /\ Resolved =>
          /\ Passes \in {1, 2}
          /\ Passes = 2 <=>
                /\ last.opens # <<>>
                /\ OpenError(last.fs, last.opens[1]) # ""
                /\ last.opens[1] # defaultDoc
          /\ Passes = 2 =>
                /\ last.fullpath = defaultDoc
                /\ Len(last.opens) = 2 => last.opens[2] = defaultDoc
                /\ Len(last.lookups) = 2 => last.lookups[2] = defaultDoc
          /\ Passes = 1 => Len(last.opens) <= 1

\* a request whose two opens both failed: the requested path, then the default
\* document, then the 404
C15_Witness ==
    /\ Resolved
    /\ Len(last.opens) = 2
    /\ last.opens[1] # defaultDoc
    /\ last.opens[2] = defaultDoc
    /\ last.resp.status = 404

\* what C16 says of a state: the entries, and the last request
C16_Keys ==
    /\ \A k \in DOMAIN cache :
          /\ cache[k].Content = FileData(k)
          /\ changes = 0 => OpenError(fs, k) = ""
    /\ (Resolved /\ last.hit) =>
          /\ last.fullpath = last.lookups[Len(last.lookups)]
          /\ MapHas(cache, last.fullpath)
          /\ last.resp.body = BodyFor(last.method, cache[last.fullpath].Content)
    /\ (Resolved /\ last.stored) =>
          /\ last.fullpath = last.reads[1]
          /\ last.resp.body = BodyFor(last.method, FileData(last.fullpath))
    /\ (Resolved /\ last.stored /\ Len(last.opens) = 2) =>
          /\ last.fullpath = defaultDoc
          /\ ~MapHas(cache, last.opens[1])
    /\ (last.method = "GET" /\ Readable(last.fs, ResolvePath(last.path))) =>
          /\ last.resp.status = 200
          /\ last.fullpath = ResolvePath(last.path)
          /\ last.resp.body = FileData(ResolvePath(last.path))

\* what C16 says of a step: a request that stores leaves the cache it found
\* plus the entry under the path it read
C16_Store ==
    (last'.method \in {"GET", "HEAD"} /\ last'.stored) =>
        cache' = MapStore(cache, last'.fullpath,
                          [Content |-> FileData(last'.fullpath),
                           ContentType |-> last'.resp.contentType])

\* C16. Cache key is the final resolved path: a cache hit answers with the
\* entry under the path the request ended at, whose content is that file's
\* bytes; a store puts the bytes just read under the path they were read from
\* and changes no other key; after a fallback that is the Default Document Path
\* and never the requested path; so the cache never holds an entry under a path
\* that had no file, and a GET for a file that is on disk gets that file's bytes.
C16_CacheKeyResolved == []C16_Keys /\ [][C16_Store]_vars

\* a request for a missing file fell back and stored the default document: the
\* entry is under the Default Document Path, none under the requested path
C16_Witness ==
    /\ last.method = "GET"
    /\ last.stored
    /\ Len(last.opens) = 2
    /\ last.opens[1] = FileY
    /\ MapHas(cache, defaultDoc)
    /\ cache[defaultDoc].Content = last.resp.body
    /\ ~MapHas(cache, FileY)

\* a file that was not on disk when the server started is served from disk
\* with its own bytes, the default document being in the cache
C16_WitnessLater ==
    /\ last.method = "GET"
    /\ last.fullpath = FileY
    /\ ~last.hit
    /\ last.resp.body = FileData(FileY)
    /\ changes = 1
    /\ \A p \in FsPaths : fs[p] = "present"
    /\ MapHas(cache, defaultDoc)

\* the type sniffed from at most the first 512 bytes of the file at a path
SniffedType(p) == DetectContentType(Take(FileData(p), SniffLen))

\* C17. Extension-less files are always sniffed: whenever a GET or HEAD is
\* answered 200 with a file whose resolved path has an empty extension, the
\* Content-Type of the response, and of the cache entry stored for it, is the
\* type sniffed from the first 512 bytes of the file, and the extension map
\* holds nothing for the empty extension.
C17_ExtensionlessSniffed ==
    /\ ~MapHas(types, <<>>)
    /\ (Resolved /\ last.resp.status = 200 /\ Ext(last.fullpath) = <<>>) =>
          /\ last.resp.contentType = SniffedType(last.fullpath)
          /\ last.stored =>
                cache[last.fullpath].ContentType = SniffedType(last.fullpath)

\* what C18 says of a state: the last request, if its read failed
C18_Answer ==
    /\ (Resolved /\ last.reads # <<>> /\ last.reads[1] \in DirPaths) =>
          /\ last.resp.status = 500
          /\ last.resp.error = <<"unable to read file">>
          /\ last.resp.body = <<>>
          /\ last.reads = <<last.fullpath>>
          /\ last.opens[Len(last.opens)] = last.fullpath
          /\ ~last.stored /\ ~last.sniffed /\ ~last.hit
    /\ (Resolved /\ ResolvePath(last.path) \in DirPaths
          /\ OpenError(last.fs, ResolvePath(last.path)) = ""
          /\ ~MapHas(cache, ResolvePath(last.path))) =>
          /\ last.resp.status = 500
          /\ last.opens = <<ResolvePath(last.path)>>
          /\ last.fullpath = ResolvePath(last.path)
    /\ (Resolved /\ last.resp.status = 500) => last.fullpath \in DirPaths

\* what C18 says of a step: a request answered 500 changes neither map
C18_Frame ==
    (last'.method \in {"GET", "HEAD"} /\ last'.resp.status = 500) =>
        /\ cache' = cache
        /\ types' = types

\* C18. Read error after successful open: when the open of the resolved path
\* succeeds and the read fails (the path is a directory), the request is
\* answered 500 with the generic message, ends at the path it opened with no
\* fallback, also when that path is not the Default Document Path, and leaves
\* cache and extension map as they were.
C18_ReadError == []C18_Answer /\ [][C18_Frame]_vars

\* a request for a directory that is not the default document was answered
\* 500, with files in the cache and types memoized
C18_Witness ==
    /\ Resolved
    /\ last.resp.status = 500
    /\ last.fullpath = DirD
    /\ last.fullpath # defaultDoc
    /\ Len(last.opens) = 1
    /\ cache # EmptyMap
    /\ types # SeedTypes

\* cache and extension map of the server just started on the disk as it is
JustStarted ==
    IF program = "main" THEN [cache |-> EmptyMap, types |-> SeedTypes]
    ELSE IF args.LoadCache THEN Precache(EmptyMap, EmptyMap, fs, args.Directory)
    ELSE [cache |-> EmptyMap, types |-> EmptyMap]

\* C19. Content-Type does not depend on request history: with the files on disk
\* as they were at startup, a successful GET of a file gets, in every state the
\* server reaches, the Content-Type it gets from the server just started.
C19_TypeIndependentOfHistory ==
    (phase = "serving" /\ changes = 0) =>
        \A p \in ReqPaths :
            LET now == Handler("GET", p, cache, types, fs)
                fresh == Handler("GET", p, JustStarted.cache, JustStarted.types, fs)
            IN (now.resp.status = 200 /\ fresh.resp.status = 200
                  /\ now.fullpath = fresh.fullpath) =>
                  now.resp.contentType = fresh.resp.contentType

\* what C20 says of a state: with caching disabled
C20_Disabled ==
    /\ ~args.MemCache => cache = EmptyMap
    /\ (Resolved /\ ~args.MemCache) =>
          /\ last.lookups = <<>>
          /\ ~last.hit
          /\ last.resp.status = 200 =>
                /\ last.reads = <<last.fullpath>>
                /\ last.resp.body = BodyFor(last.method, FileData(last.fullpath))

\* what C20 says of a step: the cache changes by the walk at startup or by the
\* store of a request that read a file; every other step leaves it alone
C20_Step ==
    /\ cache' # cache =>
          \/ program = "load" /\ last'.method = "start"
          \/ /\ args.MemCache
             /\ last'.method \in {"GET", "HEAD"}
             /\ last'.stored /\ ~last'.hit
             /\ last'.resp.status = 200
             /\ last'.reads = <<last'.fullpath>>
             /\ Readable(fs, last'.fullpath)
             /\ cache' = MapStore(cache, last'.fullpath,
                                  [Content |-> FileData(last'.fullpath),
                                   ContentType |-> last'.resp.contentType])
    /\ (/\ last'.method \in Methods
        /\ \/ last'.method = "OPTIONS"
           \/ last'.hit
           \/ last'.resp.status \in {404, 500}
           \/ ~args.MemCache) => cache' = cache

\* C20. Cache frame condition: a request changes the cache only by storing,
\* with caching enabled, the bytes of a file it opened and read, under that
\* file's path; OPTIONS requests, cache hits, requests answered 404 or 500 and
\* all requests with caching disabled leave it as it was; with caching disabled
\* the cache stays empty, is never looked up, and every 200 carries bytes read
\* from disk by that request.
C20_CacheFrame == []C20_Disabled /\ [][C20_Step]_vars

\* with caching disabled a GET was answered 200 with bytes read from disk and
\* the cache is still empty
C20_Witness ==
    /\ ~args.MemCache
    /\ last.method = "GET"
    /\ last.resp.status = 200
    /\ last.reads = <<last.fullpath>>
    /\ last.resp.body = FileData(last.fullpath)
    /\ last.resp.body # <<>>
    /\ cache = EmptyMap
    /\ types # SeedTypes

\* with caching enabled a request stored the file it read
C20_WitnessStore ==
    /\ Resolved
    /\ args.MemCache
    /\ last.stored
    /\ MapHas(cache, last.fullpath)
    /\ cache[last.fullpath].Content = FileData(last.fullpath)
====
